---- MODULE Spec2Model ----
(***************************************************************************)
(* The two session drivers of todo-hitl and the agent graphs they run:     *)
(*   src/agent/agent-custom.py  the gated agent: agent -> planner ->       *)
(*       (interrupt before tools) -> tools -> agent, compiled with a       *)
(*       MemorySaver checkpointer on the fixed thread "main_conversation"; *)
(*   src/agent/ai-agent.py      the plain agent: agent -> tools -> agent,  *)
(*       compiled without a checkpointer.                                  *)
(* Spec is the gated agent, SpecBasic the plain one.  The language model   *)
(* and the planning model are black boxes: every reply they can give (a    *)
(* direct answer, a list of tool requests, an exception) is a choice.      *)
(***************************************************************************)
EXTENDS Naturals, Sequences, FiniteSets

VARIABLES
    pc,                    \* where the session driver (run_agent) is
    conversation_history,  \* run_agent's conversation_history
    state,                 \* the graph's channel values: messages, todo_list
    node,                  \* the node the graph runs next ("end": none)
    resumed,               \* the running ainvoke is ainvoke(None, config)
    turn,                  \* number of non-empty input lines read
    nextId,                \* ids handed out to AI messages and tool calls
    attempts,              \* ainvoke calls made for the current turn's input
    rounds,                \* tool rounds of the running ainvoke (plain agent)
    outcome,               \* what the driver printed last for the turn
    trace,                 \* the control-loop steps of the current turn
    answers,               \* tool-call id -> the answer typed at its prompt
    executed,              \* ids of the tool calls handed to a tool callable
    failedTurns,           \* turns that ended in the except branch
    exitReason,            \* why the input loop was left
    user_input,            \* run_agent's user_input: the last line, stripped
    connects,              \* calls of mcp_client.connect()
    closes,                \* calls of mcp_client.close()
    history_before,        \* conversation_history when the turn's line was read
    raw,                   \* a text handed to one of the text functions
    request,               \* a call handed to one of the server's or builder's functions
    out,                   \* what the function made of it
    outcomes,              \* tools node: what call_tool did for each call
    slots,                 \* tools node: the string each tool callable returned
    finished               \* tools node: the calls in the order they completed

\* The variables of the functions and of the tools node taken alone.
auxVars == <<raw, request, out, outcomes, slots, finished>>

vars == <<pc, conversation_history, state, node, resumed, turn, nextId,
          attempts, rounds, outcome, trace, answers, executed, failedTurns,
          exitReason, user_input, connects, closes, history_before,
          auxVars>>

----------------------------------------------------------------------------
(* Bounds of the model *)

MaxTurns == 3

MaxRounds == 2

(* Program constants *)

HistoryCap == 6

\* The tool-request lists the model may emit (tools of src/server).
ToolRequests ==
    { <<[name |-> "get_weather", args |-> "city=London"]>>,
      <<[name |-> "get_stock_price", args |-> "symbol=AAPL"],
        [name |-> "web_search", args |-> "query=news"]>> }

\* What can be typed at "You: ".
InputLines ==
    { <<"E", "x", "I", "T">>, <<" ", "q", "u", "i", "t", " ">>,
      <<>>, <<" ", " ">>,
      <<" ", "h", "i">> }

\* What can be typed at "Approve execution? (yes/no): ", stripped and lowered.
ApprovalAnswers == {"yes", "no", ""}

----------------------------------------------------------------------------
(* Messages *)

None == [kind |-> "None"]

SystemMessage == [kind |-> "System", n |-> 0, content |-> "system", tool_calls |-> <<>>]

HumanMessage(n) == [kind |-> "Human", n |-> n, content |-> "input", tool_calls |-> <<>>]

AIMessage(n, content, calls) ==
    [kind |-> "AI", n |-> n, content |-> content, tool_calls |-> calls]

ToolMessage(call) ==
    [kind |-> "Tool", n |-> call.id, content |-> "result", tool_calls |-> <<>>]

\* AIMessage(content="I understand. How else can I help you?")
Acknowledgment == AIMessage(0, "I understand. How else can I help you?", <<>>)

\* The tool_calls of an AI message: each request gets a fresh call id.
MkCalls(requests, base) ==
    [i \in 1..Len(requests) |->
        [id |-> base + i, name |-> requests[i].name, args |-> requests[i].args]]

Last(s) == s[Len(s)]

CallIds(calls) == {calls[i].id : i \in 1..Len(calls)}

Range(s) == {s[i] : i \in 1..Len(s)}

\* hasattr(m, "tool_calls") and m.tool_calls
HasToolCalls(m) == m.tool_calls # <<>>

\* if len(h) > 6: h = h[-6:]
Truncate(h) ==
    IF Len(h) > HistoryCap THEN SubSeq(h, Len(h) - HistoryCap + 1, Len(h)) ELSE h

\* conversation_history.pop() under "if conversation_history"
Pop(h) == IF h # <<>> THEN SubSeq(h, 1, Len(h) - 1) ELSE h

----------------------------------------------------------------------------
(* The graph runtime, as compiled by create_agent_graph *)

\* The graph compiled without interrupt_before.
NoInterrupt == {}

\* workflow.compile(checkpointer=memory, interrupt_before=["tools"])
InterruptBefore == {"tools"}

\* An input whose todo_list of None is not written to the saved state.
ApplyInputKeepPlan(saved, input) ==
    [messages |-> saved.messages \o input.messages,
     todo_list |-> IF input.todo_list = None THEN saved.todo_list ELSE input.todo_list]

\* ainvoke(input, config) on the checkpointed thread: the input is written to
\* the channels of the thread's saved state.  messages is declared with the
\* reducer operator.add, so the input's messages are appended to the saved
\* ones; todo_list has no reducer and is overwritten.  Tasks left pending by an
\* earlier interrupt or failure are discarded and the run starts at the entry
\* point.
ApplyInput(saved, input) ==
    [messages |-> saved.messages \o input.messages, todo_list |-> input.todo_list]

\* set_entry_point("agent")
EntryPoint == "agent"

\* A routing that ends the run after every reply of the model.
route_never_planner(st) == "end"

\* A routing that sends every reply of the model to the planner.
route_always_planner(st) == "planner"

\* route_after_agent and the edge map {"planner": "planner", "end": END}
route_after_agent(st) ==
    IF HasToolCalls(Last(st.messages)) THEN "planner" ELSE "end"

\* route_after_planner and the edge map {"tools": "tools"}
route_after_planner(st) == "tools"

\* A scan for the user query that runs forward: messages[:-1]
UserQueryFirst(messages) ==
    LET humans == {i \in 1..(Len(messages) - 1) : messages[i].kind = "Human"}
    IN  IF humans = {} THEN 0
        ELSE messages[CHOOSE i \in humans : \A j \in humans : i <= j].n

\* generate_plan's scan for the user query: reversed(messages[:-1])
UserQuery(messages) ==
    LET humans == {i \in 1..(Len(messages) - 1) : messages[i].kind = "Human"}
    IN  IF humans = {} THEN 0
        ELSE messages[CHOOSE i \in humans : \A j \in humans : j <= i].n

\* generate_plan's result for the state it is given (the planning model's text
\* is abstracted to what it was generated from)
generate_plan(st) ==
    LET last_message == Last(st.messages)
    IN  IF ~HasToolCalls(last_message) THEN None
        ELSE [kind |-> "plan", calls |-> last_message.tool_calls,
              query |-> UserQuery(st.messages)]

\* ToolNode: one ToolMessage per tool call of the last AI message, in order
ToolResults(st) ==
    LET calls == Last(st.messages).tool_calls
    IN  [i \in 1..Len(calls) |-> ToolMessage(calls[i])]

\* Everything but an explicit "no" taken as consent.
AffirmativeUnlessNo(approval) == approval # "no"

\* approval in {"yes", "y"}
Affirmative(approval) == approval \in {"yes", "y"}

Event(ev, calls) == [ev |-> ev, calls |-> calls]

----------------------------------------------------------------------------
(* The string methods the drivers apply to a typed line.  A text is a       *)
(* sequence of symbols.                                                     *)

Whitespace == {" "}

\* str.lower(), one symbol
LowerSymbol(c) ==
    CASE c = "Y" -> "y"
      [] c = "E" -> "e"
      [] c = "S" -> "s"
      [] c = "X" -> "x"
      [] c = "I" -> "i"
      [] c = "T" -> "t"
      [] c = "Q" -> "q"
      [] c = "U" -> "u"
      [] OTHER -> c

\* str.upper(), one symbol
UpperSymbol(c) ==
    CASE c = "y" -> "Y"
      [] c = "e" -> "E"
      [] c = "s" -> "S"
      [] c = "x" -> "X"
      [] c = "i" -> "I"
      [] c = "t" -> "T"
      [] c = "q" -> "Q"
      [] c = "u" -> "U"
      [] OTHER -> c

\* str.upper()
Upper(t) == [i \in 1..Len(t) |-> UpperSymbol(t[i])]

\* A lower() that leaves the text as typed.
LowerOmitted(t) == t

\* str.lower()
Lower(t) == [i \in 1..Len(t) |-> LowerSymbol(t[i])]

RECURSIVE LStrip(_)
LStrip(t) ==
    IF t # <<>> /\ Head(t) \in Whitespace THEN LStrip(Tail(t)) ELSE t

RECURSIVE RStrip(_)
RStrip(t) ==
    IF t # <<>> /\ t[Len(t)] \in Whitespace THEN RStrip(SubSeq(t, 1, Len(t) - 1)) ELSE t

\* str.strip()
Strip(t) == RStrip(LStrip(t))

\* The Python string of a text.
RECURSIVE Str(_)
Str(t) == IF t = <<>> THEN "" ELSE Head(t) \o Str(Tail(t))

----------------------------------------------------------------------------
(* agent-custom.py: the session driver and the nodes of its graph *)

InitDriver ==
    /\ pc = "start"
    /\ conversation_history = <<>>
    /\ user_input = <<>>
    /\ connects = 0
    /\ closes = 0
    /\ history_before = <<>>
    /\ state = [messages |-> <<>>, todo_list |-> None]
    /\ node = EntryPoint
    /\ resumed = FALSE
    /\ turn = 0
    /\ nextId = 1
    /\ attempts = 0
    /\ rounds = 0
    /\ outcome = "none"
    /\ trace = <<>>
    /\ answers = {}
    /\ executed = {}
    /\ failedTurns = {}
    /\ exitReason = "none"
    /\ out = [fn |-> "none"]
    /\ outcomes = <<>>
    /\ slots = <<>>
    /\ finished = <<>>

NoRequest == [fn |-> "none"]

Init ==
    /\ InitDriver
    /\ raw = <<>>
    /\ request = NoRequest

\* finally: await mcp_client.close(), placed after the loop instead
CloseAfterLoop(reason) ==
    /\ pc' = "closed"
    /\ exitReason' = reason
    /\ closes' = IF reason = "exit" THEN closes + 1 ELSE closes

\* Leaving run_agent for any reason: the finally block closes the client.
Finally(reason) ==
    /\ pc' = "closed"
    /\ exitReason' = reason
    /\ closes' = closes + 1

\* connect() and list_tools() succeed, the graph is built, the history starts
\* with the system message
Startup ==
    /\ pc = "start"
    /\ connects' = connects + 1
    /\ conversation_history' = <<SystemMessage>>
    /\ pc' = "read"
    /\ UNCHANGED <<state, node, resumed, turn, nextId, attempts, rounds, outcome,
                   trace, answers, executed, failedTurns, exitReason, user_input,
                   closes>>
    /\ UNCHANGED auxVars
    /\ UNCHANGED history_before

\* connect() or list_tools() raises: the outer handler, then the finally block
StartupFails ==
    /\ pc = "start"
    /\ connects' = connects + 1
    /\ \E step \in {"connect", "list_tools"} : Finally(step)
    /\ UNCHANGED <<conversation_history, state, node, resumed, turn, nextId,
                   attempts, rounds, outcome, trace, answers, executed, failedTurns,
                   user_input>>
    /\ UNCHANGED auxVars
    /\ UNCHANGED history_before

\* The empty test made on the line as typed, before strip().
DispatchUnstripped(line) ==
    LET u == Strip(line)
    IN  IF Str(Lower(u)) \in {"exit", "quit"} THEN "exit"
        ELSE IF line = <<>> THEN "empty"
        ELSE "turn"

\* The test of the loop head sees the line as typed, case included.
DispatchCaseSensitive(line) ==
    LET u == Strip(line)
    IN  IF Str(u) \in {"exit", "quit"} THEN "exit"
        ELSE IF u = <<>> THEN "empty"
        ELSE "turn"

\* user_input = input("You: ").strip(), then the two tests of the loop head
Dispatch(line) ==
    LET u == Strip(line)
    IN  IF Str(Lower(u)) \in {"exit", "quit"} THEN "exit"
        ELSE IF u = <<>> THEN "empty"
        ELSE "turn"

\* user_input.lower() in {"exit", "quit"}: break, then the finally block
ExitInput ==
    /\ pc = "read"
    /\ \E line \in InputLines :
         /\ Dispatch(line) = "exit"
         /\ user_input' = Strip(line)
    /\ Finally("exit")
    /\ UNCHANGED <<conversation_history, state, node, resumed, turn, nextId,
                   attempts, rounds, outcome, trace, answers, executed, failedTurns,
                   connects>>
    /\ UNCHANGED auxVars
    /\ UNCHANGED history_before

\* input() raises at the prompt: the outer handler, then the finally block
InputRaises ==
    /\ pc = "read"
    /\ Finally("input")
    /\ UNCHANGED <<conversation_history, state, node, resumed, turn, nextId,
                   attempts, rounds, outcome, trace, answers, executed, failedTurns,
                   user_input, connects>>
    /\ UNCHANGED auxVars
    /\ UNCHANGED history_before

\* if not user_input: continue
EmptyInput ==
    /\ pc = "read"
    /\ \E line \in InputLines :
         /\ Dispatch(line) = "empty"
         /\ user_input' = Strip(line)
    /\ UNCHANGED <<pc, conversation_history, state, node, resumed, turn, nextId,
                   attempts, rounds, outcome, trace, answers, executed, failedTurns,
                   exitReason, connects, closes>>
    /\ UNCHANGED auxVars
    /\ UNCHANGED history_before

\* A non-empty line: append the Human message, truncate, build the state and
\* call agent_graph.ainvoke(state, config).
ReadInput ==
    /\ pc = "read"
    /\ turn < MaxTurns
    /\ \E line \in InputLines :
         /\ Dispatch(line) = "turn"
         /\ user_input' = Strip(line)
    /\ LET history == Truncate(Append(conversation_history, HumanMessage(turn + 1)))
       IN  /\ conversation_history' = history
           /\ state' = ApplyInput(state, [messages |-> history, todo_list |-> None])
    /\ node' = EntryPoint
    /\ resumed' = FALSE
    /\ pc' = "graph"
    /\ turn' = turn + 1
    /\ attempts' = 1
    /\ outcome' = "none"
    /\ trace' = <<>>
    /\ UNCHANGED <<nextId, rounds, answers, executed, failedTurns, exitReason,
                   connects, closes>>
    /\ UNCHANGED auxVars
    /\ history_before' = conversation_history

\* except Exception as e: print the error, pop the history
Except ==
    /\ conversation_history' = Pop(conversation_history)
    /\ outcome' = "error"
    /\ failedTurns' = failedTurns \cup {turn}
    /\ pc' = "read"

\* call_model returns the model's reply; route_after_agent picks the next node
call_model ==
    /\ pc = "graph"
    /\ node = "agent"
    /\ \E reply \in {<<>>} \cup ToolRequests :
         LET calls == MkCalls(reply, nextId)
             response == AIMessage(nextId, IF reply = <<>> THEN "answer" ELSE "", calls)
             new == [state EXCEPT !.messages = Append(@, response)]
         IN  /\ state' = new
             /\ nextId' = nextId + 1 + Len(reply)
             /\ node' = route_after_agent(new)
             /\ pc' = IF route_after_agent(new) = "end" THEN "returned" ELSE "graph"
             /\ trace' = Append(trace, Event("DECIDE", calls))
    /\ UNCHANGED <<conversation_history, resumed, turn, attempts, rounds, outcome,
                   answers, executed, failedTurns, exitReason>>
    /\ UNCHANGED auxVars
    /\ UNCHANGED <<user_input, connects, closes, history_before>>

\* llm_with_tools.ainvoke raises: the exception leaves ainvoke
call_model_raises ==
    /\ pc = "graph"
    /\ node = "agent"
    /\ Except
    /\ UNCHANGED <<state, node, resumed, turn, nextId, attempts, rounds, trace,
                   answers, executed, exitReason>>
    /\ UNCHANGED auxVars
    /\ UNCHANGED <<user_input, connects, closes, history_before>>

\* the planner node; the run then stops before a node of interrupt_before
planner ==
    /\ pc = "graph"
    /\ node = "planner"
    /\ state' = [state EXCEPT !.todo_list = generate_plan(state)]
    /\ node' = route_after_planner(state)
    /\ pc' = IF route_after_planner(state) \in InterruptBefore THEN "returned" ELSE "graph"
    /\ trace' = Append(trace, Event("PLAN", Last(state.messages).tool_calls))
    /\ UNCHANGED <<conversation_history, resumed, turn, nextId, attempts, rounds,
                   outcome, answers, executed, failedTurns, exitReason>>
    /\ UNCHANGED auxVars
    /\ UNCHANGED <<user_input, connects, closes, history_before>>

\* planning_llm.ainvoke raises
planner_raises ==
    /\ pc = "graph"
    /\ node = "planner"
    /\ HasToolCalls(Last(state.messages))
    /\ Except
    /\ UNCHANGED <<state, node, resumed, turn, nextId, attempts, rounds, trace,
                   answers, executed, exitReason>>
    /\ UNCHANGED auxVars
    /\ UNCHANGED <<user_input, connects, closes, history_before>>

\* the tools node, then the edge tools -> agent
tool_node ==
    /\ pc = "graph"
    /\ node = "tools"
    /\ state' = [state EXCEPT !.messages = @ \o ToolResults(state)]
    /\ executed' = executed \cup CallIds(Last(state.messages).tool_calls)
    /\ node' = "agent"
    /\ trace' = Append(trace, Event("EXECUTE", Last(state.messages).tool_calls))
    /\ UNCHANGED <<pc, conversation_history, resumed, turn, nextId, attempts, rounds,
                   outcome, answers, failedTurns, exitReason>>
    /\ UNCHANGED auxVars
    /\ UNCHANGED <<user_input, connects, closes, history_before>>

\* A driver that tests the last message after every ainvoke, the resumed one
\* included, and prompts again.
AfterInvokeAnyRound ==
    /\ pc = "returned"
    /\ LET last_message == Last(state.messages)
       IN  IF HasToolCalls(last_message)
           THEN /\ pc' = "approve"
                /\ trace' = Append(trace, Event("AWAIT", last_message.tool_calls))
                /\ UNCHANGED <<conversation_history, outcome>>
           ELSE /\ conversation_history' = Truncate(state.messages)
                /\ outcome' = "answer"
                /\ pc' = "read"
                /\ UNCHANGED trace
    /\ UNCHANGED <<state, node, resumed, turn, nextId, attempts, rounds, answers,
                   executed, failedTurns, exitReason>>
    /\ UNCHANGED auxVars
    /\ UNCHANGED <<user_input, connects, closes, history_before>>

\* After the first ainvoke: tool calls on the last message lead to the approval
\* prompt, anything else is the answer of the turn.
AfterInvoke ==
    /\ pc = "returned"
    /\ ~resumed
    /\ LET last_message == Last(state.messages)
       IN  IF HasToolCalls(last_message)
           THEN /\ pc' = "approve"
                /\ trace' = Append(trace, Event("AWAIT", last_message.tool_calls))
                /\ UNCHANGED <<conversation_history, outcome>>
           ELSE /\ conversation_history' = Truncate(state.messages)
                /\ outcome' = "answer"
                /\ pc' = "read"
                /\ UNCHANGED trace
    /\ UNCHANGED <<state, node, resumed, turn, nextId, attempts, rounds, answers,
                   executed, failedTurns, exitReason>>
    /\ UNCHANGED auxVars
    /\ UNCHANGED <<user_input, connects, closes, history_before>>

\* An approval that resumes with ainvoke(state, config): the input is applied
\* to the saved state and the graph starts again at its entry point.
ApproveReinvoke ==
    /\ pc = "approve"
    /\ \E approval \in ApprovalAnswers :
         /\ answers' = answers \cup
               {<<id, approval>> : id \in CallIds(Last(state.messages).tool_calls)}
         /\ IF Affirmative(approval)
            THEN /\ resumed' = TRUE
                 /\ pc' = "graph"
                 /\ state' = ApplyInput(state, [messages |-> conversation_history,
                                                todo_list |-> None])
                 /\ node' = EntryPoint
                 /\ trace' = Append(trace, Event("APPROVE", Last(state.messages).tool_calls))
                 /\ UNCHANGED <<conversation_history, outcome>>
            ELSE /\ conversation_history' = Append(conversation_history, Acknowledgment)
                 /\ outcome' = "rejected"
                 /\ pc' = "read"
                 /\ UNCHANGED <<state, node, resumed, trace>>
    /\ UNCHANGED <<turn, nextId, attempts, rounds, executed, failedTurns, exitReason>>
    /\ UNCHANGED auxVars
    /\ UNCHANGED <<user_input, connects, closes, history_before>>

\* approval = input(...).strip().lower(): resume the graph with
\* ainvoke(None, config), which continues the saved state, or cancel
Approve ==
    /\ pc = "approve"
    /\ \E approval \in ApprovalAnswers :
         /\ answers' = answers \cup
               {<<id, approval>> : id \in CallIds(Last(state.messages).tool_calls)}
         /\ IF Affirmative(approval)
            THEN /\ resumed' = TRUE
                 /\ pc' = "graph"
                 /\ trace' = Append(trace, Event("APPROVE", Last(state.messages).tool_calls))
                 /\ UNCHANGED <<conversation_history, outcome>>
            ELSE /\ conversation_history' = Append(conversation_history, Acknowledgment)
                 /\ outcome' = "rejected"
                 /\ pc' = "read"
                 /\ UNCHANGED <<resumed, trace>>
    /\ UNCHANGED <<state, node, turn, nextId, attempts, rounds, executed,
                   failedTurns, exitReason>>
    /\ UNCHANGED auxVars
    /\ UNCHANGED <<user_input, connects, closes, history_before>>

\* After ainvoke(None, config): whatever it returned is the turn's final message
AfterResume ==
    /\ pc = "returned"
    /\ resumed
    /\ conversation_history' = Truncate(state.messages)
    /\ outcome' = "approved"
    /\ pc' = "read"
    /\ UNCHANGED <<state, node, resumed, turn, nextId, attempts, rounds, trace,
                   answers, executed, failedTurns, exitReason>>
    /\ UNCHANGED auxVars
    /\ UNCHANGED <<user_input, connects, closes, history_before>>

Next ==
    \/ Startup
    \/ StartupFails
    \/ ExitInput
    \/ InputRaises
    \/ EmptyInput
    \/ ReadInput
    \/ call_model
    \/ call_model_raises
    \/ planner
    \/ planner_raises
    \/ tool_node
    \/ AfterInvoke
    \/ Approve
    \/ AfterResume

Spec == Init /\ [][Next]_vars

----------------------------------------------------------------------------
(* ai-agent.py: the session driver and the nodes of its graph.  The graph   *)
(* is compiled without a checkpointer: every ainvoke starts from its input. *)

\* agent_graph.ainvoke({"messages": conversation_history})
FreshState(history) == [messages |-> history, todo_list |-> None]

\* should_continue and the edge map {"continue": "tools", "end": END}
should_continue(st) ==
    IF ~HasToolCalls(Last(st.messages)) THEN "end" ELSE "tools"

InitBasic == Init

\* A non-empty line: append the Human message and invoke the graph.
BasicReadInput ==
    /\ pc = "read"
    /\ turn < MaxTurns
    /\ \E line \in InputLines :
         /\ Dispatch(line) = "turn"
         /\ user_input' = Strip(line)
    /\ LET history == Append(conversation_history, HumanMessage(turn + 1))
       IN  /\ conversation_history' = history
           /\ state' = FreshState(history)
    /\ node' = EntryPoint
    /\ pc' = "graph"
    /\ turn' = turn + 1
    /\ attempts' = 1
    /\ rounds' = 0
    /\ outcome' = "none"
    /\ UNCHANGED <<resumed, nextId, trace, answers, executed, failedTurns, exitReason,
                   connects, closes>>
    /\ UNCHANGED auxVars
    /\ history_before' = conversation_history

\* call_model returns the model's reply; should_continue picks the next node
basic_call_model ==
    /\ pc = "graph"
    /\ node = "agent"
    /\ \E reply \in {<<>>} \cup (IF rounds < MaxRounds THEN ToolRequests ELSE {}) :
         LET calls == MkCalls(reply, nextId)
             response == AIMessage(nextId, IF reply = <<>> THEN "answer" ELSE "", calls)
             new == [state EXCEPT !.messages = Append(@, response)]
         IN  /\ state' = new
             /\ nextId' = nextId + 1 + Len(reply)
             /\ node' = should_continue(new)
             /\ pc' = IF should_continue(new) = "end" THEN "returned" ELSE "graph"
    /\ UNCHANGED <<conversation_history, resumed, turn, attempts, rounds, outcome,
                   trace, answers, executed, failedTurns, exitReason>>
    /\ UNCHANGED auxVars
    /\ UNCHANGED <<user_input, connects, closes, history_before>>

\* the tools node, then the edge tools -> agent
basic_tool_node ==
    /\ pc = "graph"
    /\ node = "tools"
    /\ state' = [state EXCEPT !.messages = @ \o ToolResults(state)]
    /\ executed' = executed \cup CallIds(Last(state.messages).tool_calls)
    /\ node' = "agent"
    /\ rounds' = rounds + 1
    /\ UNCHANGED <<pc, conversation_history, resumed, turn, nextId, attempts,
                   outcome, trace, answers, failedTurns, exitReason>>
    /\ UNCHANGED auxVars
    /\ UNCHANGED <<user_input, connects, closes, history_before>>

\* llm_with_tools.ainvoke raises inside the first ainvoke: the except branch
\* calls ainvoke again with the same conversation_history
basic_retry ==
    /\ pc = "graph"
    /\ node = "agent"
    /\ attempts = 1
    /\ attempts' = 2
    /\ state' = FreshState(conversation_history)
    /\ node' = EntryPoint
    /\ rounds' = 0
    /\ UNCHANGED <<pc, conversation_history, resumed, turn, nextId, outcome, trace,
                   answers, executed, failedTurns, exitReason>>
    /\ UNCHANGED auxVars
    /\ UNCHANGED <<user_input, connects, closes, history_before>>

\* llm_with_tools.ainvoke raises inside the second ainvoke: the exception
\* leaves the while loop; the outer except prints "Failed to initialize agent"
\* and the finally block closes the connection.
basic_retry_raises ==
    /\ pc = "graph"
    /\ node = "agent"
    /\ attempts = 2
    /\ Finally("error")
    /\ outcome' = "error"
    /\ failedTurns' = failedTurns \cup {turn}
    /\ UNCHANGED <<conversation_history, state, node, resumed, turn, nextId,
                   attempts, rounds, trace, answers, executed, user_input, connects>>
    /\ UNCHANGED auxVars
    /\ UNCHANGED history_before

\* final_message = response["messages"][-1]; conversation_history.append(it)
BasicAfterInvoke ==
    /\ pc = "returned"
    /\ conversation_history' = Append(conversation_history, Last(state.messages))
    /\ outcome' = "answer"
    /\ pc' = "read"
    /\ UNCHANGED <<state, node, resumed, turn, nextId, attempts, rounds, trace,
                   answers, executed, failedTurns, exitReason>>
    /\ UNCHANGED auxVars
    /\ UNCHANGED <<user_input, connects, closes, history_before>>

NextBasic ==
    \/ Startup
    \/ StartupFails
    \/ ExitInput
    \/ InputRaises
    \/ EmptyInput
    \/ BasicReadInput
    \/ basic_call_model
    \/ basic_tool_node
    \/ basic_retry
    \/ basic_retry_raises
    \/ BasicAfterInvoke

SpecBasic == InitBasic /\ [][NextBasic]_vars

----------------------------------------------------------------------------
(* Texts.  A text is a sequence of symbols, each one character or one whole  *)
(* word without markup characters; the string functions of the drivers and  *)
(* of generate_plan are computed symbol by symbol.                           *)

MaxLen == 4

\* The symbols the texts of the model are made of.
Alphabet == {"*", "#", " ", "y", "Y", "e", "s", "S", "get_weather", "brave_search"}

Texts == UNION {[1..n -> Alphabet] : n \in 0..MaxLen}

\* str.replace(old, ''): the occurrences of old, found from the left and not
\* overlapping, are removed
RECURSIVE Remove(_, _)
Remove(t, old) ==
    IF Len(t) < Len(old) THEN t
    ELSE IF SubSeq(t, 1, Len(old)) = old
         THEN Remove(SubSeq(t, Len(old) + 1, Len(t)), old)
         ELSE <<Head(t)>> \o Remove(Tail(t), old)

\* response.content.replace('**', '').replace('###', '').replace('##', '').strip()
cleaned_plan(content) ==
    Strip(Remove(Remove(Remove(content, <<"*", "*">>), <<"#", "#", "#">>), <<"#", "#">>))

\* The tool names of a list of tool requests.
RequestNames(reply) == {reply[i].name : i \in 1..Len(reply)}

InitText ==
    /\ InitDriver
    /\ raw \in Texts
    /\ request = NoRequest

\* generate_plan, from the planning model's reply to the stored todo_list
plan_text ==
    /\ out.fn = "none"
    /\ \E reply \in ToolRequests :
         out' = [fn |-> "plan", pending |-> RequestNames(reply),
                 value |-> cleaned_plan(raw)]
    /\ UNCHANGED <<pc, conversation_history, state, node, resumed, turn, nextId,
                   attempts, rounds, outcome, trace, answers, executed, failedTurns,
                   exitReason, raw, outcomes, slots, finished>>
    /\ UNCHANGED <<user_input, connects, closes, history_before>>
    /\ UNCHANGED request

\* approval = input(...).strip().lower(); if approval in {"yes", "y"}
approval_text ==
    /\ out.fn = "none"
    /\ LET approval == Str(Lower(Strip(raw)))
       IN  out' = [fn |-> "approval", value |-> approval,
                   approved |-> Affirmative(approval)]
    /\ UNCHANGED <<pc, conversation_history, state, node, resumed, turn, nextId,
                   attempts, rounds, outcome, trace, answers, executed, failedTurns,
                   exitReason, raw, outcomes, slots, finished>>
    /\ UNCHANGED <<user_input, connects, closes, history_before>>
    /\ UNCHANGED request

NextText ==
    \/ plan_text
    \/ approval_text

SpecText == InitText /\ [][NextText]_vars

----------------------------------------------------------------------------
(* The tools node taken alone: the tool callables of the pending requests   *)
(* run concurrently, each awaiting call_tool, and complete in any order.    *)

MaxCalls == 3

ExecTools ==
    { [name |-> "get_weather", args |-> "city=London"],
      [name |-> "web_search", args |-> "query=news"] }

\* The tool-request lists of the AI message the tools node is resumed on.
ExecRequests == UNION {[1..n -> ExecTools] : n \in 1..MaxCalls}

\* What mcp_client.session.call_tool can do: return a result with some content
\* items, or raise.
CallToolOutcomes ==
    { [kind |-> "content", content |-> <<"sunny">>],
      [kind |-> "content", content |-> <<"first", "second">>],
      [kind |-> "content", content |-> <<>>],
      [kind |-> "raise", message |-> "timed out"] }

Running == [kind |-> "running"]

\* A tool_func that takes the first content item without looking for one.
tool_func_unchecked(o) ==
    IF o.kind = "raise" THEN "Error executing tool: " \o o.message
    ELSE IF o.content # <<>> THEN o.content[1]
    ELSE "Error executing tool: list index out of range"

\* tool_func: the try block around call_tool
tool_func(o) ==
    IF o.kind = "raise" THEN "Error executing tool: " \o o.message
    ELSE IF o.content # <<>> THEN o.content[1]
    ELSE "No response from tool."

\* The ToolMessage the tools node builds from a callable's string.
ToolMessageOf(call, text) ==
    [kind |-> "Tool", n |-> call.id, content |-> text, tool_calls |-> <<>>]

\* The results taken as the calls complete.
as_completed(results, completion) ==
    [k \in 1..Len(completion) |-> results[completion[k]]]

\* ToolNode gathers the results of the concurrent calls in the order of the
\* tool calls.
gathered(results, completion) ==
    [i \in 1..Len(results) |-> results[i]]

InitExecute ==
    /\ \E reply \in ExecRequests :
         /\ state = [messages |-> <<SystemMessage, HumanMessage(1),
                                    AIMessage(1, "", MkCalls(reply, 1))>>,
                     todo_list |-> None]
         /\ conversation_history = <<SystemMessage, HumanMessage(1)>>
         /\ nextId = Len(reply) + 2
         /\ outcomes = [i \in 1..Len(reply) |-> Running]
         /\ slots = [i \in 1..Len(reply) |-> ""]
    /\ pc = "graph"
    /\ node = "tools"
    /\ resumed = TRUE
    /\ turn = 1
    /\ attempts = 1
    /\ rounds = 0
    /\ outcome = "none"
    /\ trace = <<>>
    /\ answers = {}
    /\ executed = {}
    /\ failedTurns = {}
    /\ exitReason = "none"
    /\ user_input = <<"h", "i">>
    /\ connects = 1
    /\ closes = 0
    /\ history_before = <<SystemMessage>>
    /\ raw = <<>>
    /\ request = NoRequest
    /\ out = [fn |-> "none"]
    /\ finished = <<>>

\* One of the running tool callables returns.
tool_func_returns ==
    /\ pc = "graph"
    /\ node = "tools"
    /\ \E i \in DOMAIN outcomes : \E o \in CallToolOutcomes :
         /\ outcomes[i] = Running
         /\ outcomes' = [outcomes EXCEPT ![i] = o]
         /\ slots' = [slots EXCEPT ![i] = tool_func(o)]
         /\ finished' = Append(finished, i)
    /\ UNCHANGED <<pc, conversation_history, state, node, resumed, turn, nextId,
                   attempts, rounds, outcome, trace, answers, executed, failedTurns,
                   exitReason, raw, out>>
    /\ UNCHANGED <<user_input, connects, closes, history_before>>
    /\ UNCHANGED request

\* All callables have returned: the tools node appends its ToolMessages and
\* the edge tools -> agent is taken.
tool_node_gather ==
    /\ pc = "graph"
    /\ node = "tools"
    /\ Len(finished) = Len(outcomes)
    /\ LET calls == Last(state.messages).tool_calls
           results == [i \in 1..Len(calls) |-> ToolMessageOf(calls[i], slots[i])]
       IN  /\ state' = [state EXCEPT !.messages = @ \o gathered(results, finished)]
           /\ executed' = executed \cup CallIds(calls)
    /\ node' = "agent"
    /\ UNCHANGED <<pc, conversation_history, resumed, turn, nextId, attempts, rounds,
                   outcome, trace, answers, failedTurns, exitReason, raw, out,
                   outcomes, slots, finished>>
    /\ UNCHANGED <<user_input, connects, closes, history_before>>
    /\ UNCHANGED request

NextExecute ==
    \/ tool_func_returns
    \/ tool_node_gather

SpecExecute == InitExecute /\ [][NextExecute]_vars

----------------------------------------------------------------------------
(* Functions checked on their own: the inputs are drawn by the initial      *)
(* state into request, the action applies the function and stores what it   *)
(* gave in out.                                                             *)

allButOut ==
    <<pc, conversation_history, state, node, resumed, turn, nextId, attempts,
      rounds, outcome, trace, answers, executed, failedTurns, exitReason,
      user_input, connects, closes, history_before, raw, request, outcomes,
      slots, finished>>

----------------------------------------------------------------------------
(* src/server/backend/data_store.py: get_stock_price *)

\* The symbols a stock symbol is typed with.
SymbolAlphabet == {"T", "s", "U", ".", "u"}

StockSymbols == UNION {[1..n -> SymbolAlphabet] : n \in 0..MaxLen}

\* data = next(reader, None): no row, or the first row of the CSV text
ProviderRows ==
    { None,
      [Open |-> "N/D", High |-> "N/D", Low |-> "N/D", Close |-> "N/D", Volume |-> "N/D"],
      [Open |-> "1.0", High |-> "3.0", Low |-> "1.0", Close |-> "n/d", Volume |-> "7"],
      [Open |-> "1.0", High |-> "3.0", Low |-> "1.0", Close |-> "2.0", Volume |-> "7"] }

\* A normalisation that appends the suffix to every symbol.
normalize_always_suffix(symbol) == Lower(symbol) \o <<".", "u", "s">>

\* symbol = symbol.lower(); if "." not in symbol: symbol = f"{symbol}.us"
normalize_symbol(symbol) ==
    LET lowered == Lower(symbol)
    IN  IF "." \notin Range(lowered) THEN lowered \o <<".", "u", "s">> ELSE lowered

\* get_stock_price, from the symbol and the provider's first row to the result
get_stock_price(symbol, data) ==
    LET normalized == normalize_symbol(symbol)
    IN  IF data = None \/ data.Close = "N/D"
        THEN [error |-> "No data found for symbol " \o Str(normalized)]
        ELSE [symbol |-> Str(Upper(normalized)), open |-> data.Open,
              high |-> data.High, low |-> data.Low, close |-> data.Close,
              volume |-> data.Volume]

InitStock ==
    /\ InitDriver
    /\ raw = <<>>
    /\ request \in [fn : {"get_stock_price"}, symbol : StockSymbols, data : ProviderRows]

stock_price ==
    /\ out.fn = "none"
    /\ request.fn = "get_stock_price"
    /\ out' = [fn |-> "get_stock_price",
               normalized |-> normalize_symbol(request.symbol),
               result |-> get_stock_price(request.symbol, request.data)]
    /\ UNCHANGED allButOut

NextStock == stock_price

SpecStock == InitStock /\ [][NextStock]_vars

----------------------------------------------------------------------------
(* src/server/main.py: call_tool, and the way its result reaches tool_func *)

ServerTools == {"get_weather", "get_stock_price", "web_search"}

\* The names call_tool can be asked for: the server's tools and one it lacks.
RequestedNames == ServerTools \cup {"brave_search"}

\* The keys an arguments dict can hold.
ArgumentKeys == {"city", "symbol", "query", "num_results"}

\* What a backend function of data_store.py can do with its arguments: return
\* its data, return its own error dict, or raise (httpx errors other than
\* HTTPStatusError, a timeout).
BackendOutcomes ==
    { [kind |-> "return", result |-> [status |-> "", message |-> "data"]],
      [kind |-> "return", result |-> [status |-> "", message |-> "error: not configured"]],
      [kind |-> "raise", message |-> "timed out"] }

\* json.dumps(result, indent=2)
json_dumps(result) ==
    "{status: " \o result.status \o ", message: " \o result.message \o "}"

\* The backend call of call_tool's branch for name: get_stock_price(None)
\* raises at symbol.lower(), before anything is fetched.
backend(name, arguments, does) ==
    IF name = "get_stock_price" /\ "symbol" \notin arguments
    THEN [kind |-> "raise", message |-> "'NoneType' object has no attribute 'lower'"]
    ELSE does

\* A call_tool without its except branch.
call_tool_unguarded(name, arguments, does) ==
    IF name \in ServerTools
    THEN LET b == backend(name, arguments, does)
         IN  IF b.kind = "raise"
             THEN [kind |-> "raise", message |-> b.message, called |-> TRUE]
             ELSE [kind |-> "content", content |-> <<json_dumps(b.result)>>,
                   called |-> TRUE]
    ELSE [kind |-> "content",
          content |-> <<json_dumps([status |-> "error",
                                    message |-> "Unknown tool: " \o name])>>,
          called |-> FALSE]

\* call_tool: the branch for the name, the one TextContent it returns, and the
\* except branch that turns an exception into an error payload
call_tool(name, arguments, does) ==
    IF name \in ServerTools
    THEN LET b == backend(name, arguments, does)
         IN  IF b.kind = "raise"
             THEN [kind |-> "content",
                   content |-> <<json_dumps([status |-> "error", message |-> b.message])>>,
                   called |-> TRUE]
             ELSE [kind |-> "content", content |-> <<json_dumps(b.result)>>,
                   called |-> TRUE]
    ELSE [kind |-> "content",
          content |-> <<json_dumps([status |-> "error",
                                    message |-> "Unknown tool: " \o name])>>,
          called |-> FALSE]

\* mcp_client.session.call_tool: the server's content items are delivered as
\* result.content; an exception of the handler arrives as an error result
\* whose one content item is the exception's text.
session_call_tool(served) ==
    IF served.kind = "raise"
    THEN [kind |-> "content", content |-> <<served.message>>]
    ELSE [kind |-> "content", content |-> served.content]

InitServer ==
    /\ InitDriver
    /\ raw = <<>>
    /\ request \in [fn : {"call_tool"}, name : RequestedNames,
                     arguments : SUBSET ArgumentKeys, backend : BackendOutcomes]

serve_call_tool ==
    /\ out.fn = "none"
    /\ request.fn = "call_tool"
    /\ LET served == call_tool(request.name, request.arguments, request.backend)
       IN  out' = [fn |-> "call_tool", served |-> served,
                   text |-> tool_func(session_call_tool(served))]
    /\ UNCHANGED allButOut

NextServer == serve_call_tool

SpecServer == InitServer /\ [][NextServer]_vars

----------------------------------------------------------------------------
(* create_langchain_tool_from_mcp (the same in both agents): the input model *)
(* built from a tool's inputSchema, and the call of the tool it returns.     *)
(* Every value is taken to fit its parameter's type.                         *)

ParamNames == {"city", "num_results"}

\* The keys a tool input can hold.
InputKeys == ParamNames \cup {"_dummy"}

\* None, as an argument's value.
Null == "null"

ToolInputs == UNION {[K -> {Null, "v"}] : K \in SUBSET InputKeys}

\* The fields dict: one field per declared property, required or Optional
\* with default None; _dummy when no property is declared.
input_fields(properties, required) ==
    IF properties = {}
    THEN [f \in {"_dummy"} |-> "optional"]
    ELSE [f \in properties |-> IF f \in required THEN "required" ELSE "optional"]

\* pydantic.create_model(name, **fields): a field given as Field(...) under a
\* name with a leading underscore is refused with NameError.
create_model(fields) ==
    IF "_dummy" \in DOMAIN fields
    THEN [kind |-> "raise",
          message |-> "Fields must not use names with leading underscores"]
    ELSE [kind |-> "model", fields |-> fields]

\* InputModel's validation of a tool input: a required field must be there
\* and not None, keys that are no field are ignored, a field left out gets
\* its default None.
validated(fields, tool_input) ==
    IF \E f \in DOMAIN fields :
           /\ fields[f] = "required"
           /\ (f \notin DOMAIN tool_input \/ tool_input[f] = Null)
    THEN [kind |-> "raise", message |-> "validation error"]
    ELSE [kind |-> "kwargs",
          kwargs |-> [f \in DOMAIN fields |->
                        IF f \in DOMAIN tool_input THEN tool_input[f] ELSE Null]]

\* kwargs = {k: v for k, v in kwargs.items() if k != '_dummy' and v is not None}
forwarded(kwargs) ==
    [k \in {j \in DOMAIN kwargs : j # "_dummy" /\ kwargs[j] # Null} |-> kwargs[k]]

InitTool ==
    /\ InitDriver
    /\ raw = <<>>
    /\ request \in [fn : {"tool"}, properties : SUBSET ParamNames,
                     required : SUBSET ParamNames, tool_input : ToolInputs,
                     passes : {"given", "all"}]

\* create_langchain_tool_from_mcp(mcp_client, tool_schema)
build_tool ==
    /\ out.fn = "none"
    /\ request.fn = "tool"
    /\ LET model == create_model(input_fields(request.properties, request.required))
       IN  out' = IF model.kind = "raise"
                  THEN [fn |-> "build failed", message |-> model.message]
                  ELSE [fn |-> "built", fields |-> model.fields]
    /\ UNCHANGED allButOut

\* The built tool is invoked with request.tool_input: validation, then
\* tool_func with the validated fields (all of them, or those that were given,
\* as the StructuredTool passes them on), then call_tool with what is left.
invoke_tool ==
    /\ out.fn = "built"
    /\ LET v == validated(out.fields, request.tool_input)
           kwargs == IF request.passes = "all" THEN v.kwargs
                     ELSE [k \in DOMAIN v.kwargs \cap DOMAIN request.tool_input |->
                             v.kwargs[k]]
       IN  out' = IF v.kind = "raise"
                  THEN [fn |-> "invalid", message |-> v.message]
                  ELSE [fn |-> "called", arguments |-> forwarded(kwargs)]
    /\ UNCHANGED allButOut

NextTool ==
    \/ build_tool
    \/ invoke_tool

SpecTool == InitTool /\ [][NextTool]_vars

----------------------------------------------------------------------------
(* Properties *)

\* The first DECIDE of a turn: the graph is about to run its entry node inside
\* ainvoke(state, config).
AtFirstDecide == pc = "graph" /\ node = "agent" /\ ~resumed

\* The tool calls whose approval prompt got an answer other than yes / y.
Rejected == {p[1] : p \in {q \in answers : q[2] \notin {"yes", "y"}}}

\* The tool calls whose approval prompt got yes or y.
Approved == {p[1] : p \in {q \in answers : q[2] \in {"yes", "y"}}}

Occurrences(ev, calls) ==
    Cardinality({j \in 1..Len(trace) : trace[j] = Event(ev, calls)})

\* C1: in the gated agent every tool execution is immediately preceded, in the
\* same turn, by DECIDE producing exactly these requests, PLAN over them, the
\* approval prompt showing them and an affirmative answer, each exactly once;
\* nothing is ever executed that was not approved.
C1_ExecuteOnlyAfterApproval ==
    /\ executed \subseteq Approved
    /\ \A i \in 1..Len(trace) :
         trace[i].ev = "EXECUTE" =>
           /\ i >= 5
           /\ trace[i - 4] = Event("DECIDE", trace[i].calls)
           /\ trace[i - 3] = Event("PLAN", trace[i].calls)
           /\ trace[i - 2] = Event("AWAIT", trace[i].calls)
           /\ trace[i - 1] = Event("APPROVE", trace[i].calls)
           /\ \A ev \in {"DECIDE", "PLAN", "AWAIT", "APPROVE", "EXECUTE"} :
                Occurrences(ev, trace[i].calls) = 1

\* C1 witness: a second or later turn in which the tools have just run.
C1_Witness ==
    /\ turn >= 2
    /\ trace # <<>>
    /\ Last(trace).ev = "EXECUTE"

\* C2: tool requests answered with anything but yes / y are never handed to a
\* tool callable, in that turn or a later one, no ToolResult for them is in the
\* loop state or in the history, and the rejection ends the turn.
C2_RejectedNeverDispatched ==
    /\ Rejected \cap executed = {}
    /\ \A m \in Range(state.messages) \cup Range(conversation_history) :
         m.kind = "Tool" => m.n \notin Rejected
    /\ outcome = "rejected" => pc \in {"read", "closed"}

\* C2 witness: after a rejection, a later turn on the same thread ran tools.
C2_Witness ==
    \E r \in Rejected : \E e \in executed : e > r

\* C3: the message taken as the turn's final answer and merged into the history
\* carries no pending tool requests.
C3_FinalAnswerHasNoToolCalls ==
    (pc = "read" /\ outcome \in {"answer", "approved"})
        => ~HasToolCalls(Last(conversation_history))

\* C4: at the first DECIDE of a turn the model is given exactly the retained
\* history followed by the new Human message.
C4_FirstDecideSeesHistory ==
    AtFirstDecide => state.messages = conversation_history

\* C5: after every completed turn the history holds at most 6 messages.
C5_HistoryCapped ==
    pc = "read" => Len(conversation_history) <= HistoryCap

\* C6: the System message is the first message of the history handed to the
\* control loop in every turn.
C6_SystemMessageFirst ==
    AtFirstDecide => conversation_history[1] = SystemMessage

\* C7: the number of messages passed to the model at the first DECIDE of a turn
\* never exceeds the history cap.
C7_ModelInputBounded ==
    AtFirstDecide => Len(state.messages) <= HistoryCap

\* C8: a turn-level failure never ends the session.
C8_FailureKeepsSession ==
    exitReason # "error"

\* C9: the Human message of a failed turn is absent from the history and from
\* the messages given to the model at DECIDE in every later turn.
C9_FailedInputDiscarded ==
    \A t \in failedTurns :
        /\ HumanMessage(t) \notin Range(conversation_history)
        /\ (pc = "graph" /\ node = "agent" /\ turn > t)
               => HumanMessage(t) \notin Range(state.messages)

\* C10: an error is surfaced to the session driver only after the failed
\* invocation was tried a second time.
C10_RetriedOnce ==
    outcome = "error" => attempts = 2

\* Every ToolResult of a message sequence answers a tool request of the nearest
\* AI message before it.
ToolResultsMatched(messages) ==
    \A i \in 1..Len(messages) :
        messages[i].kind = "Tool" =>
            \E j \in 1..(i - 1) :
                /\ messages[j].kind = "AI"
                /\ \A k \in (j + 1)..(i - 1) : messages[k].kind # "AI"
                /\ messages[i].n \in CallIds(messages[j].tool_calls)

\* C11: whenever the model is about to be invoked, every ToolResult of the
\* messages it is given matches a tool request of the nearest preceding AI
\* message (a sequence that does not is never passed to the model).
C11_ToolResultsMatchAtDecide ==
    (pc = "graph" /\ node = "agent") => ToolResultsMatched(state.messages)

Contains(t, sub) ==
    \E i \in 1..(Len(t) - Len(sub) + 1) : SubSeq(t, i, i + Len(sub) - 1) = sub

\* C14: the plan stored by the planner contains none of **, ### and ##.
C14_PlanHasNoMarkup ==
    out.fn = "plan" =>
        /\ ~Contains(out.value, <<"*", "*">>)
        /\ ~Contains(out.value, <<"#", "#", "#">>)
        /\ ~Contains(out.value, <<"#", "#">>)

\* The tool names a text mentions.
Mentions(t) == Range(t) \cap {"get_weather", "get_stock_price", "web_search", "brave_search"}

\* C16: the stored plan mentions only tool names of the pending requests.
C16_PlanMentionsOnlyPending ==
    out.fn = "plan" => Mentions(out.value) \subseteq out.pending

\* The lines that are yes or y in some letter case, with blanks around.
YesWords ==
    {<<"y">>, <<"Y">>}
        \cup {<<a, b, c>> : a \in {"y", "Y"}, b \in {"e", "E"}, c \in {"s", "S"}}

IsYesLine(t) ==
    \E i \in 1..Len(t) : \E j \in i..Len(t) :
        /\ SubSeq(t, i, j) \in YesWords
        /\ \A k \in (1..(i - 1)) \cup ((j + 1)..Len(t)) : t[k] \in Whitespace

\* C18: the approval branch is taken exactly for the lines that are yes or y
\* once blanks around them and letter case are ignored; every other line,
\* the empty one included, is a rejection.
C18_AffirmativeExactlyYes ==
    out.fn = "approval" => (out.approved <=> IsYesLine(raw))

\* C18 witness: an approval that needed both the trimming and the lower-casing.
C18_Witness ==
    /\ out.fn = "approval"
    /\ out.approved
    /\ raw = <<" ", "Y", "e", "S">>

\* The tool calls of the AI message the tools node ran on, and the messages
\* that follow that message.
ExecCalls == state.messages[3].tool_calls

ExecResults == SubSeq(state.messages, 4, Len(state.messages))

\* C12: when the tools node is done it has appended exactly one ToolResult per
\* pending request, in the order of the requests, whatever the order in which
\* the calls completed and whichever of them failed.
C12_ResultsInRequestOrder ==
    node = "agent" =>
        /\ Len(ExecResults) = Len(ExecCalls)
        /\ \A i \in 1..Len(ExecCalls) :
             /\ ExecResults[i].kind = "Tool"
             /\ ExecResults[i].n = ExecCalls[i].id

\* C12 witness: three calls done, completed in the order 3, 1, 2, the second
\* one failing.
C12_Witness ==
    /\ node = "agent"
    /\ finished = <<3, 1, 2>>
    /\ outcomes[2].kind = "raise"

\* C13: every tool callable that has returned has returned a string: the text
\* of the first content item, the sentinel when the result has no content, the
\* error text when call_tool raised; the tools node puts that string into the
\* ToolResult of the call and the loop goes on to DECIDE.
C13_ToolFuncReturnsString ==
    /\ \A k \in 1..Len(finished) :
         LET i == finished[k]
             o == outcomes[i]
         IN  /\ (o.kind = "content" /\ o.content # <<>>) => slots[i] = o.content[1]
             /\ (o.kind = "content" /\ o.content = <<>>) => slots[i] = "No response from tool."
             /\ o.kind = "raise" => slots[i] = "Error executing tool: " \o o.message
    /\ Len(finished) = Len(outcomes) => ENABLED tool_node_gather \/ node = "agent"
    /\ node = "agent" =>
         \A i \in 1..Len(ExecCalls) : ExecResults[i].content = slots[i]

\* C13 witness: the tools node is done and its three calls ended in the three
\* ways: content, no content, exception.
C13_Witness ==
    /\ node = "agent"
    /\ Len(outcomes) = 3
    /\ outcomes[1] = [kind |-> "content", content |-> <<"first", "second">>]
    /\ outcomes[2] = [kind |-> "content", content |-> <<>>]
    /\ outcomes[3].kind = "raise"

\* C15: a reply of the model without tool requests ends the turn's run of the
\* graph: no PLAN, AWAIT, APPROVE or EXECUTE event follows it, no approval is
\* asked for, a turn made of that reply alone is the turn's answer with the
\* plan absent, and generate_plan gives None when nothing is pending.
C15_DirectAnswerEndsTurn ==
    /\ \A i \in 1..Len(trace) :
          trace[i] = Event("DECIDE", <<>>) => i = Len(trace)
    /\ (trace # <<>> /\ Last(trace) = Event("DECIDE", <<>>))
          => pc \in {"returned", "read", "closed"}
    /\ trace = <<Event("DECIDE", <<>>)>>
          => /\ state.todo_list = None
             /\ pc = "read" => outcome = "answer"
    /\ (state.messages # <<>> /\ ~HasToolCalls(Last(state.messages)))
          => generate_plan(state) = None

C15_Witness ==
    /\ pc = "read"
    /\ turn >= 2
    /\ outcome = "answer"
    /\ trace = <<Event("DECIDE", <<>>)>>

\* The last approval prompt of the turn's trace.
Surfaced ==
    LET awaits == {i \in 1..Len(trace) : trace[i].ev = "AWAIT"}
    IN  trace[CHOOSE i \in awaits : \A j \in awaits : j <= i].calls

\* C17: from the stop before the tools node to the approval answer the loop
\* state and the node to resume at do not change, and the tools node then runs
\* the tool calls that the prompt showed, ids, names and arguments alike.
C17_SuspendedStateKept ==
    [][ /\ (pc \in {"returned", "approve"} /\ ~resumed
                /\ HasToolCalls(Last(state.messages)))
            => (state' = state /\ node' = node)
        /\ (pc = "graph" /\ node = "tools" /\ trace' # trace)
            => /\ \E i \in 1..Len(trace) : trace[i].ev = "AWAIT"
               /\ Last(trace') = Event("EXECUTE", Surfaced)
               /\ executed' = executed \cup CallIds(Surfaced)
               /\ Len(state'.messages) = Len(state.messages) + Len(Surfaced)
               /\ \A k \in 1..Len(Surfaced) :
                     state'.messages[Len(state.messages) + k] = ToolMessage(Surfaced[k])
      ]_vars

C17_Witness ==
    /\ trace # <<>>
    /\ Last(trace).ev = "EXECUTE"
    /\ Len(Last(trace).calls) = 2
    /\ Last(trace).calls[2].args = "query=news"

\* C19: connect() is called at most once and close() exactly once on every
\* way run_agent ends: the exit keyword, a failure of connect() or of
\* list_tools(), an exception that leaves the input loop.
C19_ConnectionReleasedOnce ==
    /\ connects <= 1
    /\ closes <= 1
    /\ (pc = "closed") <=> (closes = 1)
    /\ pc # "start" => connects = 1
    /\ pc = "closed" => exitReason \in {"exit", "connect", "list_tools", "input", "error"}

C19_Witness ==
    /\ pc = "closed"
    /\ exitReason = "input"
    /\ turn >= 1
    /\ closes = 1

\* The spellings of a word in every mix of letter cases.
AnyCase(word) ==
    {t \in [1..Len(word) -> {word[i] : i \in 1..Len(word)}
                               \cup {UpperSymbol(word[i]) : i \in 1..Len(word)}] :
        \A i \in 1..Len(word) : t[i] \in {word[i], UpperSymbol(word[i])}}

ExitWords == AnyCase(<<"e", "x", "i", "t">>) \cup AnyCase(<<"q", "u", "i", "t">>)

\* C20: a line that is exit or quit in any letter case ends the session in
\* that step: the history, the loop state and the trace are as before, no
\* model reply is produced, no tool runs, and the loop is left by the break.
C20_ExitEndsSession ==
    [][ (pc = "read" /\ user_input' \in ExitWords)
            => /\ pc' = "closed"
               /\ exitReason' = "exit"
               /\ closes' = closes + 1
               /\ conversation_history' = conversation_history
               /\ state' = state
               /\ trace' = trace
               /\ executed' = executed
               /\ nextId' = nextId
               /\ turn' = turn
      ]_vars

C20_Witness ==
    /\ pc = "closed"
    /\ exitReason = "exit"
    /\ user_input = <<"E", "x", "I", "T">>
    /\ turn >= 1

\* C23: after the first ainvoke of a turn the driver's test for tool calls on
\* the last message holds exactly when the graph stopped before the tools
\* node and not at END, and the approval prompt is shown only in that case.
C23_PromptOnlyWhenSuspended ==
    /\ (pc = "returned" /\ ~resumed)
          => /\ node \in {"tools", "end"}
             /\ HasToolCalls(Last(state.messages)) <=> (node = "tools")
    /\ pc = "approve"
          => /\ node = "tools"
             /\ HasToolCalls(Last(state.messages))
             /\ Last(trace).ev = "AWAIT"

C23_Witness ==
    /\ pc = "approve"
    /\ turn >= 2
    /\ failedTurns # {}
    /\ Rejected # {}

\* C24: after a rejected turn the history ends with the turn's Human message
\* and one acknowledgment, and no AI message of the history has a tool request
\* without its ToolResult in the history.
Unanswered(h) ==
    {i \in 1..Len(h) :
        \E k \in 1..Len(h[i].tool_calls) :
            ToolMessage(h[i].tool_calls[k]) \notin Range(h)}

C24_RejectionLeavesCleanHistory ==
    (pc = "read" /\ outcome = "rejected")
        => /\ Len(conversation_history) >= 2
           /\ Last(conversation_history) = Acknowledgment
           /\ conversation_history[Len(conversation_history) - 1] = HumanMessage(turn)
           /\ Cardinality({i \in 1..Len(conversation_history) :
                              /\ conversation_history[i] = Acknowledgment
                              /\ i > 1
                              /\ conversation_history[i - 1] = HumanMessage(turn)}) = 1
           /\ Last(state.messages) \notin Range(conversation_history)
           /\ Unanswered(conversation_history) = {}

\* C25: when the planner runs, the user query it finds is the Human message
\* of the current turn, and a stored plan was made for that message.
C25_PlanForCurrentQuery ==
    /\ (pc = "graph" /\ node = "planner")
          => /\ \E i \in 1..(Len(state.messages) - 1) :
                   state.messages[i] = HumanMessage(turn)
             /\ UserQuery(state.messages) = turn
    /\ state.todo_list # None => state.todo_list.query = turn

C25_Witness ==
    /\ pc = "approve"
    /\ turn = 3
    /\ state.todo_list # None
    /\ state.todo_list.query = 3

\* C27: after a failed turn of the gated driver the history is the history
\* that was there when the turn's line was read.
C27_RollbackRestoresHistory ==
    (pc = "read" /\ outcome = "error")
        => conversation_history = history_before

\* C28: the plan at an approval prompt was made in this turn from the tool
\* calls pending at the prompt, and every turn starts without a plan.
C28_PlanMatchesPending ==
    /\ pc = "approve"
          => /\ state.todo_list # None
             /\ state.todo_list.calls = Last(state.messages).tool_calls
             /\ state.todo_list.calls = Last(trace).calls
             /\ state.todo_list.query = turn
    /\ AtFirstDecide => state.todo_list = None

C28_Witness ==
    /\ pc = "approve"
    /\ turn >= 2
    /\ Approved # {}
    /\ Len(state.todo_list.calls) = 2

\* C29: a turn of the gated driver has at most one approval prompt and one
\* resumption, at most seven graph and driver events, and while it is under
\* way and not waiting for the user a next step exists.
C29_TurnBounded ==
    /\ Cardinality({i \in 1..Len(trace) : trace[i].ev = "AWAIT"}) <= 1
    /\ Cardinality({i \in 1..Len(trace) : trace[i].ev = "APPROVE"}) <= 1
    /\ Cardinality({i \in 1..Len(trace) : trace[i].ev = "DECIDE"}) <= 2
    /\ Len(trace) <= 7
    /\ pc \in {"graph", "returned"} => ENABLED Next

C29_Witness ==
    /\ pc = "read"
    /\ outcome = "approved"
    /\ Len(trace) = 7

\* C30: a line that is empty after strip() is skipped in one step: the driver
\* stays at the prompt and the history, the loop state, the trace and the
\* model's reply counter are as before.
C30_EmptyLineSkipped ==
    [][ (pc = "read" /\ pc' # "closed" /\ user_input' = <<>>)
            => /\ pc' = "read"
               /\ conversation_history' = conversation_history
               /\ state' = state
               /\ node' = node
               /\ trace' = trace
               /\ nextId' = nextId
               /\ turn' = turn
               /\ executed' = executed
      ]_vars

C30_Witness ==
    /\ pc = "read"
    /\ turn >= 1
    /\ user_input = <<>>
    /\ outcome = "answer"

PriceFields == {"open", "high", "low", "close", "volume"}

UpperCase == {"T", "U", "S"}

\* C22: the symbol get_stock_price looks up is the typed one with every letter
\* in lower case, followed by .us exactly when the typed symbol has no ".";
\* normalising it again changes nothing; and with no row or a close price of
\* N/D the result is an error value without price fields.
C22_StockSymbolNormalized ==
    out.fn = "get_stock_price"
        => LET typed == request.symbol
               s == out.normalized
               suffixed == "." \notin Range(typed)
           IN  /\ Len(s) = Len(typed) + (IF suffixed THEN 3 ELSE 0)
               /\ \A i \in 1..Len(typed) :
                     /\ s[i] \notin UpperCase
                     /\ UpperSymbol(s[i]) = UpperSymbol(typed[i])
               /\ suffixed => SubSeq(s, Len(typed) + 1, Len(s)) = <<".", "u", "s">>
               /\ normalize_symbol(s) = s
               /\ (request.data = None \/ request.data.Close = "N/D")
                     => /\ "error" \in DOMAIN out.result
                        /\ DOMAIN out.result \cap PriceFields = {}

C22_Witness ==
    /\ out.fn = "get_stock_price"
    /\ request.symbol = <<"T", "s", ".", "U">>
    /\ request.data # None
    /\ request.data.Close = "N/D"
    /\ out.normalized = <<"t", "s", ".", "u">>

\* C26: call_tool returns, for every name, arguments dict and backend
\* outcome, exactly one text item and raises nothing; for a name the server
\* lacks the item is the error payload with that name and no backend runs; for
\* a backend that raises it is the error payload with the exception's text;
\* and tool_func never returns "No response from tool." for it.
C26_CallToolAlwaysAnswers ==
    out.fn = "call_tool"
        => /\ out.served.kind = "content"
           /\ Len(out.served.content) = 1
           /\ request.name \notin {"get_weather", "get_stock_price", "web_search"}
                 => /\ ~out.served.called
                    /\ out.served.content[1] =
                         "{status: error, message: Unknown tool: " \o request.name \o "}"
           /\ (/\ request.name \in {"get_weather", "get_stock_price", "web_search"}
               /\ request.name = "get_stock_price" => "symbol" \in request.arguments
               /\ request.backend.kind = "raise")
                 => out.served.content[1] =
                      "{status: error, message: " \o request.backend.message \o "}"
           /\ out.text # "No response from tool."
           /\ out.text = out.served.content[1]

C26_Witness ==
    /\ out.fn = "call_tool"
    /\ request.name = "get_stock_price"
    /\ request.arguments = {"city"}
    /\ request.backend.kind = "return"
    /\ out.text = "{status: error, message: 'NoneType' object has no attribute 'lower'}"

\* The tool of the request has no required parameter and is given no argument.
ZeroRequiredEmptyInput ==
    /\ request.fn = "tool"
    /\ request.properties \cap request.required = {}
    /\ DOMAIN request.tool_input = {}

\* C21: a tool without required parameters, one without declared parameters
\* included, is built and takes the empty argument map without error, and
\* what reaches call_tool has neither _dummy nor an argument that is None.
C21_ZeroRequiredTakesEmptyInput ==
    /\ ZeroRequiredEmptyInput
          => /\ out.fn \notin {"build failed", "invalid"}
             /\ out.fn = "called" => DOMAIN out.arguments = {}
    /\ out.fn = "called"
          => /\ "_dummy" \notin DOMAIN out.arguments
             /\ \A k \in DOMAIN out.arguments : out.arguments[k] # "null"

====
